---------------------------- MODULE Spec2Model ----------------------------
(***************************************************************************)
(* LyraTutorAI: the voice session of the Discord bot.                      *)
(*                                                                         *)
(* VoiceConnectionManager (src/src/discord/voice-connection-manager-v2.ts) *)
(* relays audio between a Discord voice channel and the Gemini Live        *)
(* client (src/src/lib/genai-live-client.ts), converting formats with      *)
(* DiscordAudioProcessor (src/unnamed/part_005).                          *)
(*                                                                         *)
(* JavaScript runs every handler to completion, so each event handler is   *)
(* one action; an async handler is split at its awaits.                    *)
(***************************************************************************)
EXTENDS Integers, Sequences, FiniteSets, TLC

(***************************************************************************)
(* Bounds of the model.                                                    *)
(***************************************************************************)
MaxFragments == 4

MaxStarts == 3

MaxPackets == 3

MaxToolEvents == 2

MaxJoins == 3

MaxSamples == 4
MaxStops == 2
MaxQuizStarts == 2
MaxPending == 2
MaxTicks == 4
MaxStereoSamples == 1930
MaxConnects == 3
MaxMessages == 4
MaxFailed == 1

(***************************************************************************)
(* Program constants.                                                      *)
(***************************************************************************)
MIN_BUFFER_CHUNKS == 2

DISCORD_SAMPLE_RATE == 48000

GEMINI_INPUT_SAMPLE_RATE == 16000

GEMINI_OUTPUT_SAMPLE_RATE == 24000

INT16_MIN == -32768

INT16_MAX == 32767

MIN_AUDIO_DURATION_MS == 500

DEBOUNCE_MS == 800

IDLE_DEBOUNCE_MS == 400

MIN_RMS_THRESHOLD == 400

\* samples per channel of one decoded Opus frame (20 ms at 48 kHz)
FRAME_SIZE == 960

Users == {"u1", "u2"}

\* What the transport delivers for a participant between two events of the
\* model: a run of whole decoded frames at one level.  A frame is FRAME_SIZE
\* stereo samples [left, right], 3840 bytes.
PacketRuns ==
  { [frames |-> 1,  left |-> 400, right |-> 400],
    [frames |-> 12, left |-> 800, right |-> 0],
    [frames |-> 12, left |-> 399, right |-> 399] }

(***************************************************************************)
(* Payloads of the audio fragments the AI service sends: 24 kHz mono       *)
(* PCM16 samples.                                                          *)
(***************************************************************************)
FragmentPayloads == { <<1000, -1000>>, <<32767>> }

\* The buffers the 'audio' event delivers.  odd: the byte length is odd (a
\* trailing half sample follows the data).
AudioBuffers ==
  [data : FragmentPayloads, odd : {FALSE}] \cup [data : {<<32767>>}, odd : {TRUE}]

\* The function calls a 'toolcall' event may carry: the tool the session
\* declares, with and without an id and with an empty message, and a tool it
\* does not declare.
FunctionCalls ==
  { [name |-> "send_chat_message", hasId |-> TRUE,  message |-> "hello"],
    [name |-> "send_chat_message", hasId |-> TRUE,  message |-> ""],
    [name |-> "send_chat_message", hasId |-> FALSE, message |-> "hello"],
    [name |-> "get_weather",       hasId |-> TRUE,  message |-> "hello"] }

ToolCallEvents ==
  { <<c>> : c \in FunctionCalls } \cup
  { <<c, d>> : c \in {x \in FunctionCalls : x.hasId}, d \in FunctionCalls }

VARIABLES
  connPc,              \* position of connect(): "new", "joining", "gemini", "done", "failed"
  voiceConnection,     \* "null", "signalling", "ready", "destroyed"
  audioPlayer,         \* the AudioPlayer: [created, status, stopping, resource]
  geminiStatus,        \* GenAILiveClient._status
  geminiSession,       \* GenAILiveClient._session: "null", "set"
  socket,              \* the connection under the session: "none", "open", "closing", "closed"
  isConnected,
  audioQueue,          \* Buffer[] of fragments
  isPlaying,
  responseInProgress,
  disconnected,        \* disconnect() has run
  arrived,             \* history: the fragments received, in order
  cancelled,           \* history: stopPlayback has been called
  handed,              \* history: fragments handed to the player, in order
  emitted,             \* history: PCM of the streams the player finished
  overlap,             \* history: play() was called over a live resource
  interruptedNow,      \* history: the handler that ran last is the 'interrupted' listener
  userAudioBuffers,    \* Map userId -> buffer object (0: no entry)
  bufs,                \* the buffer objects ever created: [user, chunks, timer, totalSamples]
  streams,             \* receiver.subscriptions: the participants with an open stream
  decoders,            \* the Opus decoders piped from open streams: [user, buf]
  timers,              \* pending setTimeout callbacks: [id, user, ms], and the history
                       \* field late: armed after disconnect()
  nTimers,             \* history: timers created
  nStarts,             \* history: speaking 'start' events of each participant
  nPackets,            \* history: packet runs received from each participant
  finals,              \* history: what each processFinalAudio that found audio did
  toolHandlers,        \* the runs of the 'toolcall' listener: [calls, at, state]
  channelMessages,     \* the messages posted to the Discord channel
  toolResponses,       \* the function responses sent on the session
  teardown,            \* history: the steps disconnect() has taken, in order
  voiceConnections,    \* the bot's table for the guild: a manager, or 0 for no entry
  managers,            \* the managers the bot created: [voice, gemini, disconnected]
  voiceObjects,        \* the guild's VoiceConnection objects: their status
  joins,               \* the runs of handleJoinCommand: [pc, manager]
  stopReplies,         \* the replies of the bot to stop commands
  activeSessions,      \* QuizManager.activeSessions at the key of one user and
                       \* channel: a session object, or 0 for no entry
  quizSessions,        \* the QuizSession objects ever created
  quizPending,         \* the startQuiz and handleAnswer calls awaiting generateContent
  quizTimers,          \* the due times of the pending auto-cleanup timeouts
  quizReply,           \* what the last call of the QuizManager returned
  nQuizStarts,         \* history: startQuiz calls
  lastRemoval,         \* history: what removed a session last, and the session's age
  now,                 \* Date.now(), in ms since the bot started
  playTries,           \* history of one playNextAudio call: [called, entries], the
                       \* queue length at each pass of its guard
  pcmStream,           \* the Readable of playNextAudio: [open, length, offset, frames,
                       \* ended], frames the byte ranges pushed
  liveSessions,        \* the sessions client.live.connect created: "open", "closing",
                       \* "closed"; the client holds the last one, if any
  clientReturn,        \* what the last call of connect() or disconnect() on the
                       \* client returned: [call, at, value]
  textBuffer,          \* the text parts the client has accumulated, each named by the
                       \* number of the message that brought it: [id, blank]
  serverLog,           \* the serverContent messages the client received: [keys, part]
  clientEvents,        \* the events the client emitted for them: [type, text, at]
  finalScore,          \* the last final score generateFinalScore reported, with the
                       \* answers the session had been given and had judged
  monoBuffer,          \* a buffer of 16-bit mono samples given to the audio processor
  dsp                  \* what the audio processor made of it: [op, from, to, out, reads]

playbackVars == <<audioPlayer, audioQueue, isPlaying, arrived, cancelled, handed,
                  emitted, overlap>>

sessionVars == <<connPc, voiceConnection, geminiStatus, geminiSession, socket, isConnected,
                 responseInProgress, disconnected, interruptedNow>>

captureVars == <<userAudioBuffers, bufs, streams, decoders, timers, nTimers, nStarts,
                 nPackets, finals>>

toolVars == <<toolHandlers, channelMessages, toolResponses>>

botVars == <<voiceConnections, managers, voiceObjects, joins>>

dspVars == <<monoBuffer, dsp>>

quizVars == <<activeSessions, quizSessions, quizPending, quizTimers, quizReply,
              nQuizStarts, lastRemoval, now, finalScore>>

commandVars == <<stopReplies, quizVars>>

emitVars == <<playTries, pcmStream>>

clientVars == <<liveSessions, clientReturn, textBuffer, serverLog, clientEvents>>

vars == <<playbackVars, sessionVars, captureVars, toolVars, teardown, botVars, dspVars, commandVars, emitVars, clientVars>>

(***************************************************************************)
(* DiscordAudioProcessor                                                   *)
(***************************************************************************)
Min(a, b) == IF a < b THEN a ELSE b

Max(a, b) == IF a > b THEN a ELSE b

\* Math.round(a / b) for b > 0: floor(a/b + 1/2)
RoundDiv(a, b) == (2 * a + b) \div (2 * b)

\* Mutant of Clamp16: the sample is stored as an unsigned 16-bit value.
ToUnsigned16(x) == x - INT16_MIN

Clamp16(x) == Max(INT16_MIN, Min(INT16_MAX, x))

\* Mutant of monoToStereo: the sample is written to the left channel only.
monoToStereoLeftOnly(mono) ==
  [i \in 1..(2 * Len(mono)) |-> IF i % 2 = 1 THEN mono[(i + 1) \div 2] ELSE 0]

monoToStereo(mono) ==
  [i \in 1..(2 * Len(mono)) |-> mono[(i + 1) \div 2]]

\* Mutant of stereoToMono: the average is truncated toward zero.
stereoToMonoTruncating(stereo) ==
  [i \in 1..(Len(stereo) \div 2) |->
     LET sum == stereo[2 * i - 1] + stereo[2 * i]
     IN IF sum >= 0 THEN sum \div 2 ELSE -((-sum) \div 2)]

stereoToMono(stereo) ==
  [i \in 1..(Len(stereo) \div 2) |-> (stereo[2 * i - 1] + stereo[2 * i]) \div 2]

RECURSIVE Gcd(_, _)
Gcd(a, b) == IF b = 0 THEN a ELSE Gcd(b, a % b)

\* Mutant of outputSampleCount: the count is rounded up.
outputSampleCountCeil(inputSamples, inR, outR) == (inputSamples * outR + inR - 1) \div inR

\* Math.floor(inputSamples * ratio), with ratio = outR / inR
outputSampleCount(inputSamples, inR, outR) == (inputSamples * outR) \div inR

\* Math.min(inputIndexFloor + 1, inputSamples - 1)
inputIndexCeil(indexFloor, inputSamples) == Min(indexFloor + 1, inputSamples - 1)

\* The position of output sample i in the input is i / ratio, the rational
\* i * inputRate / outputRate, computed here in lowest terms.
resample(input, inputRate, outputRate) ==
  IF inputRate = outputRate THEN input
  ELSE
    LET inR == inputRate \div Gcd(inputRate, outputRate)
        outR == outputRate \div Gcd(inputRate, outputRate)
        inputSamples == Len(input)
        outputSamples == outputSampleCount(inputSamples, inR, outR)
    IN [k \in 1..outputSamples |->
          LET i == k - 1
              inputIndexFloor == (i * inR) \div outR
              indexCeil == inputIndexCeil(inputIndexFloor, inputSamples)
              fracNum == (i * inR) % outR
              sample1 == input[inputIndexFloor + 1]
              sample2 == input[indexCeil + 1]
              interpolated == RoundDiv(sample1 * outR + (sample2 - sample1) * fracNum,
                                       outR)
          IN Clamp16(interpolated)]

\* The indexes of the input samples resample reads (readInt16LE at twice
\* the index) for a buffer of inputSamples samples.
resampleReads(inputSamples, inputRate, outputRate) ==
  IF inputRate = outputRate THEN {}
  ELSE
    LET inR == inputRate \div Gcd(inputRate, outputRate)
        outR == outputRate \div Gcd(inputRate, outputRate)
        outputSamples == outputSampleCount(inputSamples, inR, outR)
    IN UNION { LET inputIndexFloor == ((k - 1) * inR) \div outR
               IN {inputIndexFloor, inputIndexCeil(inputIndexFloor, inputSamples)}
               : k \in 1..outputSamples }

\* A fragment whose byte length is odd makes resample read past the end of
\* the buffer (readInt16LE throws), and convertGeminiToDiscord rethrows.
ConvertThrows(fragment) == fragment.odd

convertGeminiToDiscord(fragment) ==
  monoToStereo(resample(fragment.data, GEMINI_OUTPUT_SAMPLE_RATE, DISCORD_SAMPLE_RATE))

(***************************************************************************)
(* Sequence helpers                                                        *)
(***************************************************************************)
RECURSIVE ConcatAll(_)
ConcatAll(seqs) ==
  IF seqs = <<>> THEN <<>> ELSE Head(seqs) \o ConcatAll(Tail(seqs))

Ids(frags) == [i \in 1..Len(frags) |-> frags[i].id]

(***************************************************************************)
(* The AudioPlayer of @discordjs/voice, as the session uses it.            *)
(***************************************************************************)
NoPlayer == [created |-> FALSE, status |-> "idle", stopping |-> FALSE,
             errored |-> FALSE, resource |-> <<>>]

\* A resource is live while the player plays it and it was neither stopped
\* nor failed.
Live(player) == player.status = "playing" /\ ~player.stopping /\ ~player.errored

\* audioPlayer.play(resource)
Play(player, pcm) ==
  [player EXCEPT !.status = "playing", !.stopping = FALSE, !.errored = FALSE,
                 !.resource = pcm]

(***************************************************************************)
(* playNextAudio.  fails: starting the stream (encoder, resource, play)    *)
(* throws.  The result is the state the call leaves, with `started` the    *)
(* fragments whose stream it handed to the player.                         *)
(***************************************************************************)
FirstBad(q) ==
  LET bad == {i \in 1..Len(q) : ConvertThrows(q[i])}
  IN IF bad = {} THEN 0 ELSE CHOOSE i \in bad : \A j \in bad : i <= j

\* Mutant of PlayGuard: playback waits for MIN_BUFFER_CHUNKS fragments.
PlayGuardThreshold(s) ==
  s.isPlaying \/ Len(s.queue) < MIN_BUFFER_CHUNKS \/ ~s.player.created

PlayGuard(s) == s.isPlaying \/ Len(s.queue) = 0 \/ ~s.player.created

\* the try block throws: a conversion does, or starting the stream
Throws(s, fails) == FirstBad(s.queue) > 0 \/ fails

\* What the try block left in the queue when it threw: the fragments after
\* the one whose conversion threw, or nothing.
Unshifted(queue) ==
  IF FirstBad(queue) > 0 THEN SubSeq(queue, FirstBad(queue) + 1, Len(queue)) ELSE <<>>

\* Mutant of Caught: the catch block leaves isPlaying set.
CaughtStillPlaying(s) ==
  [s EXCEPT !.queue = Unshifted(s.queue), !.isPlaying = TRUE,
            !.responseInProgress = FALSE]

\* the catch block, up to its call of playNextAudio
Caught(s) ==
  [s EXCEPT !.queue = Unshifted(s.queue), !.isPlaying = FALSE,
            !.responseInProgress = FALSE]

RECURSIVE playNextAudio(_, _)
playNextAudio(s, fails) ==
  IF PlayGuard(s) THEN s
  ELSE IF Throws(s, fails) THEN playNextAudio(Caught(s), fails)
  ELSE LET continuousAudio ==
             ConcatAll([i \in 1..Len(s.queue) |-> convertGeminiToDiscord(s.queue[i])])
       IN [s EXCEPT !.queue = <<>>,
                    !.isPlaying = TRUE,
                    !.overlap = s.overlap \/ Live(s.player),
                    !.player = Play(s.player, continuousAudio),
                    !.handed = s.handed \o Ids(s.queue)]

\* history: the length of the queue at each entry of playNextAudio that one
\* call makes, itself and its retries
RECURSIVE Entries(_, _)
Entries(s, fails) ==
  <<Len(s.queue)>> \o
    (IF PlayGuard(s) \/ ~Throws(s, fails) THEN <<>> ELSE Entries(Caught(s), fails))

\* The fields of the session a playback handler reads and writes.
Pb == [queue |-> audioQueue, isPlaying |-> isPlaying, player |-> audioPlayer,
       responseInProgress |-> responseInProgress, handed |-> handed,
       overlap |-> overlap]

Commit(s) ==
  /\ audioQueue' = s.queue
  /\ isPlaying' = s.isPlaying
  /\ audioPlayer' = s.player
  /\ responseInProgress' = s.responseInProgress
  /\ handed' = s.handed
  /\ overlap' = s.overlap

(***************************************************************************)
(* connect()                                                               *)
(***************************************************************************)
NoResult == [op |-> "none", from |-> 0, to |-> 0, out |-> <<>>, reads |-> {}]

CHUNK_SIZE == 3840
MAX_QUESTIONS == 10
SESSION_TIMEOUT == 900000
SWEEP_INTERVAL == 300000

\* no final score reported yet
NoScore ==
  [reported |-> FALSE, correctAnswers |-> 0, outOf |-> 0, percentage |-> 0,
   answers |-> 0, judged |-> 0]

NoStream == [open |-> FALSE, length |-> 0, offset |-> 0, frames |-> <<>>, ended |-> FALSE]

\* The fields no connect() and no 'audio' event has touched, and the
\* objects around the session.
Untouched ==
  /\ isPlaying = FALSE
  /\ disconnected = FALSE
  /\ cancelled = FALSE
  /\ handed = <<>>
  /\ emitted = <<>>
  /\ overlap = FALSE
  /\ interruptedNow = FALSE
  /\ userAudioBuffers = [u \in Users |-> 0]
  /\ bufs = <<>>
  /\ streams = {}
  /\ decoders = <<>>
  /\ timers = {}
  /\ nTimers = 0
  /\ nStarts = [u \in Users |-> 0]
  /\ nPackets = [u \in Users |-> 0]
  /\ finals = <<>>
  /\ toolHandlers = <<>>
  /\ channelMessages = <<>>
  /\ toolResponses = <<>>
  /\ teardown = <<>>
  /\ voiceConnections = 0
  /\ managers = <<>>
  /\ voiceObjects = <<>>
  /\ joins = <<>>
  /\ dsp = NoResult
  /\ stopReplies = <<>>
  /\ pcmStream = NoStream
  /\ liveSessions = <<>>
  /\ clientReturn = [call |-> "none", at |-> "none", value |-> FALSE]
  /\ textBuffer = <<>>
  /\ serverLog = <<>>
  /\ clientEvents = <<>>
  /\ activeSessions = 0
  /\ quizSessions = <<>>
  /\ quizPending = <<>>
  /\ quizTimers = <<>>
  /\ quizReply = "none"
  /\ lastRemoval = [by |-> "none", age |-> 0]
  /\ nQuizStarts = 0
  /\ now = 0
  /\ finalScore = NoScore

Constructed ==
  /\ connPc = "new"
  /\ voiceConnection = "null"
  /\ audioPlayer = NoPlayer
  /\ geminiStatus = "disconnected"
  /\ geminiSession = "null"
  /\ socket = "none"
  /\ isConnected = FALSE
  /\ audioQueue = <<>>
  /\ responseInProgress = FALSE
  /\ arrived = <<>>
  /\ playTries = [called |-> FALSE, entries |-> <<>>]
  /\ Untouched

Init == Constructed /\ monoBuffer = <<>>

\* joinVoiceChannel, then await entersState(Ready)
ConnectJoin ==
  /\ connPc = "new"
  /\ connPc' = "joining"
  /\ voiceConnection' = "signalling"
  /\ interruptedNow' = FALSE
  /\ UNCHANGED <<captureVars, toolVars, teardown, botVars, dspVars, commandVars, emitVars, clientVars>>
  /\ UNCHANGED <<playbackVars, geminiStatus, geminiSession, socket, isConnected,
                 responseInProgress, disconnected>>

\* entersState rejects: the connection is destroyed and connect() throws
ConnectVoiceFailed ==
  /\ connPc = "joining"
  /\ connPc' = "failed"
  /\ voiceConnection' = "destroyed"
  /\ interruptedNow' = FALSE
  /\ UNCHANGED <<captureVars, toolVars, teardown, botVars, dspVars, commandVars, emitVars, clientVars>>
  /\ UNCHANGED <<playbackVars, geminiStatus, geminiSession, socket, isConnected,
                 responseInProgress, disconnected>>

\* entersState resolves: the player is created and subscribed, the listeners
\* are installed, and geminiClient.connect() starts
ConnectVoiceReady ==
  /\ connPc = "joining"
  /\ connPc' = "gemini"
  /\ voiceConnection' = "ready"
  /\ audioPlayer' = [NoPlayer EXCEPT !.created = TRUE]
  /\ geminiStatus' = "connecting"
  /\ interruptedNow' = FALSE
  /\ UNCHANGED <<captureVars, toolVars, teardown, botVars, dspVars, commandVars, emitVars, clientVars>>
  /\ UNCHANGED <<audioQueue, isPlaying, arrived, cancelled, handed, emitted, overlap,
                 geminiSession, socket, isConnected, responseInProgress, disconnected>>

\* client.live.connect resolves: the session is open (onopen sets isConnected)
ConnectGeminiOpen ==
  /\ connPc = "gemini"
  /\ connPc' = "done"
  /\ geminiSession' = "set"
  /\ socket' = "open"
  /\ geminiStatus' = "connected"
  /\ isConnected' = TRUE
  /\ interruptedNow' = FALSE
  /\ UNCHANGED <<captureVars, toolVars, teardown, botVars, dspVars, commandVars, emitVars, clientVars>>
  /\ UNCHANGED <<playbackVars, voiceConnection, responseInProgress, disconnected>>

\* client.live.connect rejects: GenAILiveClient.connect returns false, and
\* connect() of the manager completes all the same
ConnectGeminiFailed ==
  /\ connPc = "gemini"
  /\ connPc' = "done"
  /\ geminiStatus' = "disconnected"
  /\ interruptedNow' = FALSE
  /\ UNCHANGED <<captureVars, toolVars, teardown, botVars, dspVars, commandVars, emitVars, clientVars>>
  /\ UNCHANGED <<playbackVars, voiceConnection, geminiSession, socket, isConnected,
                 responseInProgress, disconnected>>

(***************************************************************************)
(* Events of the Gemini client                                             *)
(***************************************************************************)
\* Messages are delivered while the session is open, and those in flight
\* when it is closed may still be delivered.
Delivering == socket \in {"open", "closing"}

\* Mutant of Pushed: the fragment is put at the front (unshift for push).
PushedFront(queue, buffer) == <<buffer>> \o queue

\* this.audioQueue.push(buffer)
Pushed(queue, buffer) == Append(queue, buffer)

\* Mutant of ShouldStart: any queued fragment starts playback.
ShouldStartAtOnce(playing, queue) == ~playing /\ Len(queue) >= 1

\* !this.isPlaying && this.audioQueue.length >= MIN_BUFFER_CHUNKS
ShouldStart(playing, queue) == ~playing /\ Len(queue) >= MIN_BUFFER_CHUNKS

\* geminiClient.on("audio").  stale: the fragment belongs to a response that
\* stopPlayback cancelled before the fragment arrived.
OnAudio(data, odd, stale, fails) ==
  /\ Delivering
  /\ Len(arrived) < MaxFragments
  /\ stale => cancelled
  /\ LET buffer == [id |-> Len(arrived) + 1, data |-> data, odd |-> odd, stale |-> stale]
         pushed == [Pb EXCEPT !.queue = Pushed(audioQueue, buffer)]
     IN /\ arrived' = Append(arrived, buffer)
        /\ IF ShouldStart(isPlaying, pushed.queue)
           THEN Commit(playNextAudio(pushed, fails))
           ELSE ~fails /\ Commit(pushed)
  /\ interruptedNow' = FALSE
  /\ UNCHANGED <<captureVars, toolVars, teardown, botVars, dspVars, commandVars, emitVars, clientVars>>
  /\ UNCHANGED <<cancelled, emitted, connPc, voiceConnection, geminiStatus, geminiSession,
                 socket, isConnected, disconnected>>

\* geminiClient.on("interrupted"): logs only
OnInterrupted ==
  /\ Delivering
  /\ interruptedNow' = TRUE
  /\ UNCHANGED <<captureVars, toolVars, teardown, botVars, dspVars, commandVars, emitVars, clientVars>>
  /\ UNCHANGED <<playbackVars, connPc, voiceConnection, geminiStatus, geminiSession,
                 socket, isConnected, responseInProgress, disconnected>>

\* geminiClient.on("turncomplete")
OnTurnComplete ==
  /\ Delivering
  /\ responseInProgress' = FALSE
  /\ interruptedNow' = FALSE
  /\ UNCHANGED <<captureVars, toolVars, teardown, botVars, dspVars, commandVars, emitVars, clientVars>>
  /\ UNCHANGED <<playbackVars, connPc, voiceConnection, geminiStatus, geminiSession,
                 socket, isConnected, disconnected>>

(***************************************************************************)
(* Events of the audio player                                              *)
(***************************************************************************)
\* stateChange to idle: the stream ended, or a stopped stream ran out
OnPlayerIdle(fails) ==
  /\ audioPlayer.status = "playing"
  /\ emitted' = IF audioPlayer.stopping THEN emitted
                ELSE emitted \o audioPlayer.resource
  /\ LET idle == [Pb EXCEPT !.player = [audioPlayer EXCEPT !.status = "idle",
                                                           !.stopping = FALSE,
                                                           !.resource = <<>>],
                            !.isPlaying = FALSE]
     IN Commit(playNextAudio(idle, fails))
  /\ interruptedNow' = FALSE
  /\ UNCHANGED <<captureVars, toolVars, teardown, botVars, dspVars, commandVars, emitVars, clientVars>>
  /\ UNCHANGED <<arrived, cancelled, connPc, voiceConnection, geminiStatus, geminiSession,
                 socket, isConnected, disconnected>>

\* 'error' of the player: the error listener runs, and the player then goes
\* idle (running the stateChange listener) unless the listener started
\* another resource
OnPlayerError(fails) ==
  /\ audioPlayer.status = "playing"
  /\ LET failed == [Pb EXCEPT !.player = [audioPlayer EXCEPT !.errored = TRUE],
                              !.isPlaying = FALSE]
         s1 == playNextAudio(failed, fails)
         s2 == IF s1.player.errored
               THEN playNextAudio([s1 EXCEPT !.player = [s1.player EXCEPT
                                                           !.status = "idle",
                                                           !.stopping = FALSE,
                                                           !.errored = FALSE,
                                                           !.resource = <<>>],
                                             !.isPlaying = FALSE], fails)
               ELSE s1
     IN Commit(s2)
  /\ interruptedNow' = FALSE
  /\ UNCHANGED <<captureVars, toolVars, teardown, botVars, dspVars, commandVars, emitVars, clientVars>>
  /\ UNCHANGED <<arrived, cancelled, emitted, connPc, voiceConnection, geminiStatus,
                 geminiSession, socket, isConnected, disconnected>>

(***************************************************************************)
(* stopPlayback() and disconnect()                                         *)
(***************************************************************************)
\* Mutant of Stop: the player is not stopped.
StopNoop(s, atOnce, fails) == s

\* audioPlayer.stop(): an idle player ignores it; otherwise the resource
\* plays out its silence padding and the player goes idle later, or (no
\* padding) goes idle at once, which runs the stateChange listener inside
\* stop().
Stop(s, atOnce, fails) ==
  IF ~s.player.created \/ s.player.status = "idle" THEN s
  ELSE IF atOnce
  THEN playNextAudio([s EXCEPT !.player = [s.player EXCEPT !.status = "idle",
                                                           !.stopping = FALSE,
                                                           !.errored = FALSE,
                                                           !.resource = <<>>],
                               !.isPlaying = FALSE], fails)
  ELSE [s EXCEPT !.player = [s.player EXCEPT !.stopping = TRUE]]

StopPlayback(atOnce) ==
  /\ connPc = "done"
  /\ ~disconnected
  /\ cancelled' = TRUE
  /\ LET cleared == [Pb EXCEPT !.queue = <<>>]
         stopped == Stop(cleared, atOnce, FALSE)
     IN Commit([stopped EXCEPT !.isPlaying = FALSE, !.responseInProgress = FALSE])
  /\ interruptedNow' = FALSE
  /\ UNCHANGED <<captureVars, toolVars, teardown, botVars, dspVars, commandVars, emitVars, clientVars>>
  /\ UNCHANGED <<arrived, emitted, connPc, voiceConnection, geminiStatus, geminiSession,
                 socket, isConnected, disconnected>>

\* disconnect(): the timers the buffers of the table hold are cleared, the
\* table is emptied, the Gemini client is disconnected, the player stopped
\* and the voice connection destroyed.
TableTimers == {bufs[userAudioBuffers[u]].timer : u \in {v \in Users : userAudioBuffers[v] # 0}}

\* The statements of disconnect() in the order they are written.
TeardownSteps ==
  <<"clear queue">> \o <<"clear timers">> \o <<"close gemini">>
    \o (IF audioPlayer.created THEN <<"stop player">> ELSE <<>>)
    \o (IF voiceConnection # "null" THEN <<"destroy voice">> ELSE <<>>)

Disconnect(atOnce) ==
  /\ connPc = "done"
  /\ ~disconnected
  /\ disconnected' = TRUE
  /\ LET cleared == [Pb EXCEPT !.queue = <<>>, !.isPlaying = FALSE,
                               !.responseInProgress = FALSE]
     IN Commit(Stop(cleared, atOnce, FALSE))
  /\ timers' = {t \in timers : t.id \notin TableTimers}
  /\ userAudioBuffers' = [u \in Users |-> 0]
  \* geminiClient.disconnect()
  /\ IF geminiSession = "null"
     THEN UNCHANGED <<geminiSession, geminiStatus, socket>>
     ELSE /\ geminiSession' = "null"
          /\ geminiStatus' = "disconnected"
          /\ socket' = IF socket = "open" THEN "closing" ELSE socket
  /\ voiceConnection' = "destroyed"
  /\ isConnected' = FALSE
  /\ teardown' = TeardownSteps
  /\ interruptedNow' = FALSE
  /\ UNCHANGED <<arrived, cancelled, emitted, connPc, bufs, streams, decoders, nTimers,
                 nStarts, nPackets, finals, toolVars, botVars, dspVars, commandVars, emitVars, clientVars>>

\* onclose of the session: the service closed the connection, or the close
\* that disconnect() started has completed.  The manager's 'close' listener
\* runs.
OnClose ==
  /\ socket \in {"open", "closing"}
  /\ socket' = "closed"
  /\ isConnected' = FALSE
  /\ interruptedNow' = FALSE
  /\ UNCHANGED <<playbackVars, captureVars, toolVars, teardown, botVars, dspVars, commandVars, emitVars, clientVars,
                 connPc, voiceConnection,
                 geminiStatus, geminiSession, responseInProgress, disconnected>>

(***************************************************************************)
(* Capture: speaking 'start', decoded audio, end of stream, debounce timer *)
(***************************************************************************)
\* The events of all participants a history counter has counted.
RECURSIVE TotalOver(_, _)
TotalOver(count, users) ==
  IF users = {} THEN 0
  ELSE LET u == CHOOSE v \in users : TRUE
       IN count[u] + TotalOver(count, users \ {u})

Total(count) == TotalOver(count, Users)

NewBuffer(u) == [user |-> u, chunks |-> <<>>, timer |-> 0, totalSamples |-> 0]

\* receiver.speaking.on("start") and processUserAudioDebounced.  subscribe
\* returns the participant's open stream when there is one, so a second
\* 'start' before the stream has ended pipes the same stream into one more
\* decoder.
OnSpeakingStart(u) ==
  /\ voiceConnection = "ready"
  /\ Total(nStarts) < MaxStarts
  /\ nStarts' = [nStarts EXCEPT ![u] = @ + 1]
  /\ LET known == userAudioBuffers[u] # 0
         b == IF known THEN userAudioBuffers[u] ELSE Len(bufs) + 1
     IN /\ bufs' = IF known THEN bufs ELSE Append(bufs, NewBuffer(u))
        /\ userAudioBuffers' = [userAudioBuffers EXCEPT ![u] = b]
        /\ timers' = IF known THEN {t \in timers : t.id # bufs[b].timer} ELSE timers
        /\ decoders' = Append(decoders, [user |-> u, buf |-> b])
  /\ streams' = streams \cup {u}
  /\ interruptedNow' = FALSE
  /\ UNCHANGED <<playbackVars, connPc, voiceConnection, geminiStatus, geminiSession, socket,
                 isConnected, responseInProgress, disconnected, nTimers, nPackets, finals,
                 toolVars, teardown, botVars, dspVars, commandVars, emitVars, clientVars>>

\* decoder.on("data") of every decoder piped from the participant's stream,
\* in the order they were piped: the chunk is pushed to the buffer the
\* decoder's closure holds.
RECURSIVE PushAll(_, _, _)
PushAll(bs, ds, chunk) ==
  IF ds = <<>> THEN bs
  ELSE LET b == Head(ds).buf
       IN PushAll([bs EXCEPT ![b].chunks = Append(@, chunk),
                             ![b].totalSamples = @ + (chunk.frames * FRAME_SIZE * 4) \div 4],
                  Tail(ds), chunk)

DecodersOf(u) == SelectSeq(decoders, LAMBDA d : d.user = u)

OnPacket(u, run) ==
  /\ voiceConnection = "ready"
  /\ u \in streams
  /\ Total(nPackets) < MaxPackets
  /\ nPackets' = [nPackets EXCEPT ![u] = @ + 1]
  /\ bufs' = PushAll(bufs, DecodersOf(u),
                     [pkt |-> Total(nPackets) + 1, frames |-> run.frames,
                      left |-> run.left, right |-> run.right])
  /\ interruptedNow' = FALSE
  /\ UNCHANGED <<playbackVars, connPc, voiceConnection, geminiStatus, geminiSession, socket,
                 isConnected, responseInProgress, disconnected, userAudioBuffers, streams,
                 decoders, timers, nTimers, nStarts, finals, toolVars, teardown, botVars, dspVars, commandVars, emitVars, clientVars>>

\* decoder.on("end") of every decoder of the stream that ended (silence of
\* 1200 ms), in the order they were piped: a buffer that holds audio gets a
\* new debounce timer, stored over the one it held.
debounceTime ==
  IF isPlaying \/ responseInProgress THEN DEBOUNCE_MS ELSE Min(DEBOUNCE_MS, IDLE_DEBOUNCE_MS)

RECURSIVE EndAll(_, _)
EndAll(c, ds) ==
  IF ds = <<>> THEN c
  ELSE LET d == Head(ds)
       IN IF Len(c.bufs[d.buf].chunks) = 0 THEN EndAll(c, Tail(ds))
          ELSE EndAll([bufs |-> [c.bufs EXCEPT ![d.buf].timer = c.nTimers + 1],
                       timers |-> c.timers \cup {[id |-> c.nTimers + 1, user |-> d.user,
                                                   ms |-> debounceTime,
                                                   late |-> disconnected]},
                       nTimers |-> c.nTimers + 1],
                      Tail(ds))

OnStreamEnd(u) ==
  /\ u \in streams
  /\ streams' = streams \ {u}
  /\ decoders' = SelectSeq(decoders, LAMBDA d : d.user # u)
  /\ LET c == EndAll([bufs |-> bufs, timers |-> timers, nTimers |-> nTimers], DecodersOf(u))
     IN /\ bufs' = c.bufs
        /\ timers' = c.timers
        /\ nTimers' = c.nTimers
  /\ interruptedNow' = FALSE
  /\ UNCHANGED <<playbackVars, connPc, voiceConnection, geminiStatus, geminiSession, socket,
                 isConnected, responseInProgress, disconnected, userAudioBuffers, nStarts,
                 nPackets, finals, toolVars, teardown, botVars, dspVars, commandVars, emitVars, clientVars>>

(***************************************************************************)
(* processFinalAudio                                                       *)
(***************************************************************************)
\* durationMs < MIN_AUDIO_DURATION_MS, with durationMs = totalSamples / 48000 * 1000
TooShort(totalSamples) == totalSamples * 1000 < MIN_AUDIO_DURATION_MS * DISCORD_SAMPLE_RATE

\* Mutant of TooQuiet: the loudness gate is missing.
TooQuietNever(chunks) == FALSE

\* calculateRMS(fullBuffer) < MIN_RMS_THRESHOLD.  The sum of ((left + right) / 2)^2
\* over the stereo samples, divided by their number, is compared with the
\* square of the threshold; both sides are taken in units of 4 * FRAME_SIZE.
RECURSIVE SquareSum(_)
SquareSum(chunks) ==
  IF chunks = <<>> THEN 0
  ELSE LET c == Head(chunks)
       IN c.frames * (c.left + c.right) * (c.left + c.right) + SquareSum(Tail(chunks))

RECURSIVE FrameCount(_)
FrameCount(chunks) ==
  IF chunks = <<>> THEN 0 ELSE Head(chunks).frames + FrameCount(Tail(chunks))

TooQuiet(chunks) ==
  SquareSum(chunks) < 4 * MIN_RMS_THRESHOLD * MIN_RMS_THRESHOLD * FrameCount(chunks)

\* convertDiscordToGemini on runs of equal samples: stereoToMono, then resample
\* 48000 -> 16000 (output sample i is input sample 3i), then base64.
monoRuns(chunks) ==
  [i \in 1..Len(chunks) |->
     [n |-> chunks[i].frames * FRAME_SIZE, v |-> (chunks[i].left + chunks[i].right) \div 2]]

RECURSIVE resampleRuns(_, _, _, _)
resampleRuns(runs, offset, inR, outR) ==
  IF runs = <<>> THEN <<>>
  ELSE LET first == (offset * outR + inR - 1) \div inR
           next == ((offset + Head(runs).n) * outR + inR - 1) \div inR
       IN <<[n |-> next - first, v |-> Head(runs).v]>>
            \o resampleRuns(Tail(runs), offset + Head(runs).n, inR, outR)

RECURSIVE RunLength(_)
RunLength(runs) == IF runs = <<>> THEN 0 ELSE Head(runs).n + RunLength(Tail(runs))

convertDiscordToGemini(chunks) ==
  LET g == Gcd(DISCORD_SAMPLE_RATE, GEMINI_INPUT_SAMPLE_RATE)
      runs == resampleRuns(monoRuns(chunks), 0, DISCORD_SAMPLE_RATE \div g,
                           GEMINI_INPUT_SAMPLE_RATE \div g)
      bytes == 2 * RunLength(runs)
  IN [pcm |-> runs, base64Length |-> 4 * ((bytes + 2) \div 3)]

\* The outcome of processFinalAudio(u) on a buffer that holds audio.
\* fails: the conversion or the send throws.
FinalOutcome(buffer, fails) ==
  IF TooShort(buffer.totalSamples) THEN "short"
  ELSE IF TooQuiet(buffer.chunks) THEN "quiet"
  ELSE IF fails THEN "failed"
  ELSE "sent"

\* Mutant of Deleted: the entry is kept.
DeletedNever(table, userId) == table

\* this.userAudioBuffers.delete(userId)
Deleted(table, userId) == [table EXCEPT ![userId] = 0]

\* setTimeout callback of a debounce timer: processFinalAudio(userId)
OnTimer(t, fails) ==
  /\ t \in timers
  /\ timers' = timers \ {t}
  /\ LET b == userAudioBuffers[t.user]
     IN IF b = 0 \/ Len(bufs[b].chunks) = 0
        THEN /\ ~fails
             /\ UNCHANGED <<userAudioBuffers, finals, responseInProgress>>
        ELSE LET outcome == FinalOutcome(bufs[b], fails)
             IN /\ fails => outcome = "failed"
                /\ finals' = Append(finals,
                      [user |-> t.user, outcome |-> outcome, chunks |-> bufs[b].chunks,
                       totalSamples |-> bufs[b].totalSamples,
                       data |-> IF outcome = "sent" THEN convertDiscordToGemini(bufs[b].chunks)
                                ELSE [pcm |-> <<>>, base64Length |-> 0],
                       delivered |-> outcome = "sent" /\ geminiSession # "null",
                       afterDisconnect |-> disconnected])
                /\ responseInProgress' = IF outcome = "sent" THEN TRUE
                                         ELSE responseInProgress
                /\ userAudioBuffers' = Deleted(userAudioBuffers, t.user)
  /\ interruptedNow' = FALSE
  /\ UNCHANGED <<playbackVars, connPc, voiceConnection, geminiStatus, geminiSession, socket,
                 isConnected, disconnected, bufs, streams, decoders, nTimers, nStarts,
                 nPackets, toolVars, teardown, botVars, dspVars, commandVars, emitVars, clientVars>>

(***************************************************************************)
(* Tool calls: the 'toolcall' listener and handleSendChatMessage           *)
(***************************************************************************)
\* functionCall.name === "send_chat_message" && functionCall.id
Handled(call) == call.name = "send_chat_message" /\ call.hasId

\* The listener runs from call `from` until handleSendChatMessage awaits
\* channel.send or the calls are exhausted: calls that are not handled are
\* skipped, and handleSendChatMessage returns at once for an empty message.
RECURSIVE Advance(_, _)
Advance(calls, from) ==
  IF from > Len(calls) THEN [at |-> from, state |-> "done"]
  ELSE IF Handled(calls[from]) /\ calls[from].message # ""
  THEN [at |-> from, state |-> "posting"]
  ELSE Advance(calls, from + 1)

\* Mutant of Respond: the response is put before those sent earlier.
RespondFirst(responses, r) ==
  IF geminiSession = "null" THEN responses ELSE <<r>> \o responses

\* geminiClient.sendToolResponse: session?.sendToolResponse
Respond(responses, r) ==
  IF geminiSession = "null" THEN responses ELSE Append(responses, r)

\* geminiClient.on("toolcall")
OnToolCall(event) ==
  /\ Delivering
  /\ Len(toolHandlers) < MaxToolEvents
  /\ LET n == Len(toolHandlers) + 1
         calls == [i \in 1..Len(event) |->
                     [name |-> event[i].name, message |-> event[i].message,
                      id |-> IF event[i].hasId THEN 10 * n + i ELSE 0,
                      hasId |-> event[i].hasId]]
         h == Advance(calls, 1)
     IN toolHandlers' = Append(toolHandlers, [calls |-> calls, at |-> h.at, state |-> h.state])
  /\ interruptedNow' = FALSE
  /\ UNCHANGED <<playbackVars, captureVars, teardown, botVars, dspVars, commandVars, emitVars, clientVars,
                 channelMessages, toolResponses, connPc,
                 voiceConnection, geminiStatus, geminiSession, socket, isConnected,
                 responseInProgress, disconnected>>

\* channel.send settles.  posted: it resolved.  The success response is sent
\* after a post; when the post or that send throws, the catch block sends
\* the failure response (sendThrows: "no", "first": the send in the try block
\* throws, "both": the send in the catch block throws as well).
OnChannelSend(k, posted, sendThrows) ==
  /\ k \in DOMAIN toolHandlers
  /\ toolHandlers[k].state = "posting"
  /\ sendThrows # "no" => (posted /\ socket # "open")
  /\ ~posted => sendThrows = "no"
  /\ LET h == toolHandlers[k]
         call == h.calls[h.at]
         ok == [id |-> call.id, name |-> call.name, success |-> TRUE]
         failure == [id |-> call.id, name |-> call.name, success |-> FALSE]
         next == Advance(h.calls, h.at + 1)
     IN /\ channelMessages' = IF posted THEN Append(channelMessages, call.message)
                              ELSE channelMessages
        /\ toolResponses' =
             IF posted /\ sendThrows = "no" THEN Respond(toolResponses, ok)
             ELSE IF sendThrows = "both" THEN toolResponses
             ELSE Respond(toolResponses, failure)
        /\ toolHandlers' = [toolHandlers EXCEPT ![k].at = next.at, ![k].state = next.state]
  /\ interruptedNow' = FALSE
  /\ UNCHANGED <<playbackVars, captureVars, teardown, botVars, dspVars, commandVars, emitVars, clientVars,
                 connPc, voiceConnection, geminiStatus,
                 geminiSession, socket, isConnected, responseInProgress, disconnected>>

\* getStatus() and isActive() of the manager
getStatus ==
  [voiceConnectionState |-> IF voiceConnection = "null" THEN "disconnected"
                            ELSE voiceConnection,
   geminiConnected |-> isConnected,
   queuedAudioChunks |-> Len(audioQueue)]

isActive == isConnected /\ voiceConnection = "ready"

\* handleStopCommand of the bot for the guild of this session.  The manager is
\* in the bot's table from the return of connect() to the leave command.  The
\* handler calls interrupt() on the manager's GenAILiveClient, which has no
\* such method: the call throws a TypeError, the catch block replies.
InTable == connPc = "done" /\ ~disconnected

StopCommand ==
  /\ Len(stopReplies) < MaxStops
  /\ stopReplies' = Append(stopReplies,
        [text |-> IF InTable THEN "failed" ELSE "notInVoice",
         queued |-> Len(audioQueue), playing |-> isPlaying])
  /\ interruptedNow' = FALSE
  /\ UNCHANGED <<playbackVars, captureVars, toolVars, teardown, botVars, dspVars, quizVars,
                 emitVars, clientVars>>
  /\ UNCHANGED <<connPc, voiceConnection, geminiStatus, geminiSession, socket, isConnected,
                 responseInProgress, disconnected>>

(***************************************************************************)
(* The bot: join and leave commands of one guild.  A manager is kept here  *)
(* by what the bot's table depends on: its voice connection, the state of  *)
(* its Gemini session, and whether disconnect() has run.                   *)
(***************************************************************************)
sessionUnchanged ==
  UNCHANGED <<playbackVars, sessionVars, captureVars, toolVars, teardown, dspVars,
              commandVars, emitVars, clientVars>>

\* handleJoinCommand up to its first await: the guild must have no entry in
\* voiceConnections.
JoinCommand ==
  /\ Len(joins) < MaxJoins
  /\ joins' = Append(joins, [pc |-> IF voiceConnections # 0 THEN "rejected" ELSE "replying",
                             manager |-> 0])
  /\ UNCHANGED <<voiceConnections, managers, voiceObjects>>
  /\ sessionUnchanged

\* joinVoiceChannel(): the guild's connection is reused unless it is destroyed.
Joined(objects) ==
  IF objects # <<>> /\ objects[Len(objects)] # "destroyed" THEN objects
  ELSE Append(objects, "signalling")

\* The reply "Joining voice channel..." settles.  replied: the manager is
\* created and connect() runs up to entersState; otherwise the catch block
\* ends the command.
JoinReplied(j, replied) ==
  /\ j \in DOMAIN joins
  /\ joins[j].pc = "replying"
  /\ IF replied
     THEN /\ voiceObjects' = Joined(voiceObjects)
          /\ managers' = Append(managers, [voice |-> Len(voiceObjects'), gemini |-> "none",
                                           disconnected |-> FALSE])
          /\ joins' = [joins EXCEPT ![j] = [pc |-> "voice", manager |-> Len(managers')]]
     ELSE /\ joins' = [joins EXCEPT ![j].pc = "failed"]
          /\ UNCHANGED <<managers, voiceObjects>>
  /\ UNCHANGED voiceConnections
  /\ sessionUnchanged

\* entersState(Ready) settles.  ready: connect() goes on to
\* geminiClient.connect(); otherwise the connection is destroyed and the
\* error ends the command.
JoinVoiceSettled(j, ready) ==
  /\ j \in DOMAIN joins
  /\ joins[j].pc = "voice"
  /\ LET m == joins[j].manager
         v == managers[m].voice
     IN /\ voiceObjects[v] = "ready" => ready
        /\ voiceObjects[v] = "destroyed" => ~ready
        /\ IF ready
           THEN /\ voiceObjects' = [voiceObjects EXCEPT ![v] = "ready"]
                /\ managers' = [managers EXCEPT ![m].gemini = "connecting"]
                /\ joins' = [joins EXCEPT ![j].pc = "gemini"]
           ELSE /\ voiceObjects' = [voiceObjects EXCEPT ![v] = "destroyed"]
                /\ joins' = [joins EXCEPT ![j].pc = "failed"]
                /\ UNCHANGED managers
  /\ UNCHANGED voiceConnections
  /\ sessionUnchanged

\* geminiClient.connect() settles: it returns true or false and never
\* throws, so connect() returns and the manager is put in the table.
JoinGeminiSettled(j, opened) ==
  /\ j \in DOMAIN joins
  /\ joins[j].pc = "gemini"
  /\ LET m == joins[j].manager
     IN /\ managers' = [managers EXCEPT ![m].gemini = IF opened THEN "open" ELSE "failed"]
        /\ voiceConnections' = m
  /\ joins' = [joins EXCEPT ![j].pc = "done"]
  /\ UNCHANGED voiceObjects
  /\ sessionUnchanged

\* The Gemini service closes the session of manager m: the manager's 'close'
\* listener clears isConnected, and nothing else.
ServiceClose(m) ==
  /\ m \in DOMAIN managers
  /\ managers[m].gemini = "open"
  /\ managers' = [managers EXCEPT ![m].gemini = "closed"]
  /\ UNCHANGED <<voiceConnections, voiceObjects, joins>>
  /\ sessionUnchanged

\* handleLeaveCommand with an entry in the table: disconnect() of that
\* manager, and the entry is deleted.
LeaveCommand ==
  /\ voiceConnections # 0
  /\ LET m == voiceConnections
     IN /\ managers' = [managers EXCEPT
                          ![m].gemini = IF @ \in {"open", "connecting"} THEN "disconnected" ELSE @,
                          ![m].disconnected = TRUE]
        /\ voiceObjects' = [voiceObjects EXCEPT ![managers[m].voice] = "destroyed"]
  /\ voiceConnections' = 0
  /\ UNCHANGED joins
  /\ sessionUnchanged

(***************************************************************************)
(* The audio processor applied to a buffer                                 *)
(***************************************************************************)
SampleValues == {INT16_MIN, -1, 0, 1, INT16_MAX}

MonoBuffers == UNION { [1..n -> SampleValues] : n \in 0..MaxSamples }

Rates == {GEMINI_INPUT_SAMPLE_RATE, GEMINI_OUTPUT_SAMPLE_RATE, DISCORD_SAMPLE_RATE}

bufferUnchanged ==
  UNCHANGED <<playbackVars, sessionVars, captureVars, toolVars, teardown, botVars,
              monoBuffer, commandVars, emitVars, clientVars>>

\* stereoToMono(monoToStereo(monoBuffer))
ChannelsRoundTrip ==
  /\ dsp' = [NoResult EXCEPT !.op = "channels",
                             !.out = stereoToMono(monoToStereo(monoBuffer))]
  /\ bufferUnchanged

\* stereoToMono(buffer) of a buffer of whole stereo frames: left and right
\* samples interleaved.
StereoToMono ==
  /\ Len(monoBuffer) % 2 = 0
  /\ dsp' = [NoResult EXCEPT !.op = "mono", !.out = stereoToMono(monoBuffer)]
  /\ bufferUnchanged

\* resample(monoBuffer, from, to)
Resample(from, to) ==
  /\ dsp' = [op |-> "resample", from |-> from, to |-> to,
             out |-> resample(monoBuffer, from, to),
             reads |-> resampleReads(Len(monoBuffer), from, to)]
  /\ bufferUnchanged

\* resample(resample(monoBuffer, from, to), to, from)
RatesRoundTrip(from, to) ==
  /\ dsp' = [NoResult EXCEPT !.op = "rates", !.from = from, !.to = to,
                             !.out = resample(resample(monoBuffer, from, to), to, from)]
  /\ bufferUnchanged

(***************************************************************************)
(* Specifications                                                          *)
(***************************************************************************)
Connect ==
  \/ ConnectJoin
  \/ ConnectVoiceFailed
  \/ ConnectVoiceReady
  \/ ConnectGeminiOpen
  \/ ConnectGeminiFailed

Next ==
  \/ Connect
  \/ \E b \in AudioBuffers, stale \in BOOLEAN, fails \in BOOLEAN :
       OnAudio(b.data, b.odd, stale, fails)
  \/ OnInterrupted
  \/ OnTurnComplete
  \/ \E fails \in BOOLEAN : OnPlayerIdle(fails)
  \/ \E fails \in BOOLEAN : OnPlayerError(fails)
  \/ \E atOnce \in BOOLEAN : StopPlayback(atOnce)
  \/ \E atOnce \in BOOLEAN : Disconnect(atOnce)
  \/ OnClose

Spec == Init /\ [][Next]_vars

\* The playback of a session that stays connected: the events of the client
\* and of the player, and stopPlayback, without the teardown.
NextPlayback ==
  \/ Connect
  \/ \E b \in AudioBuffers, stale \in BOOLEAN, fails \in BOOLEAN :
       OnAudio(b.data, b.odd, stale, fails)
  \/ OnInterrupted
  \/ OnTurnComplete
  \/ \E fails \in BOOLEAN : OnPlayerIdle(fails)
  \/ \E fails \in BOOLEAN : OnPlayerError(fails)
  \/ \E atOnce \in BOOLEAN : StopPlayback(atOnce)

SpecPlayback == Init /\ [][NextPlayback]_vars

(***************************************************************************)
(* The QuizManager, for the quizzes of one user in one channel: every call *)
(* has the same session key.  A call that awaits generateContent is split  *)
(* there.                                                                  *)
(***************************************************************************)
quizUnchanged ==
  UNCHANGED <<playbackVars, sessionVars, captureVars, toolVars, teardown, botVars,
              dspVars, stopReplies, emitVars, clientVars>>

Without(seq, i) == [k \in 1..(Len(seq) - 1) |-> IF k < i THEN seq[k] ELSE seq[k + 1]]

\* A session object that nothing refers to any more: it is neither under the
\* key nor held by a call in flight.
Collected ==
  [questionsAsked |-> 0, correctAnswers |-> 0, startTime |-> 0, labels |-> <<>>,
   answers |-> 0]

Collect(sessions, active, pending) ==
  [k \in DOMAIN sessions |->
     IF k = active \/ \E i \in DOMAIN pending : pending[i].session = k
       THEN sessions[k] ELSE Collected]

\* history: activeSessions.delete(sessionKey) removed a session of this age
Removal(by) ==
  IF activeSessions = 0 THEN lastRemoval
  ELSE [by |-> by, age |-> now - quizSessions[activeSessions].startTime]

\* startQuiz up to its await: a key with a session is refused
StartQuiz ==
  /\ nQuizStarts < MaxQuizStarts
  /\ Len(quizPending) < MaxPending
  /\ nQuizStarts' = nQuizStarts + 1
  /\ IF activeSessions # 0
       THEN /\ quizReply' = "alreadyActive"
            /\ UNCHANGED quizPending
       ELSE /\ quizPending' = Append(quizPending,
                                     [kind |-> "start", session |-> 0, startTime |-> now])
            /\ UNCHANGED quizReply
  /\ UNCHANGED <<activeSessions, quizSessions, quizTimers, lastRemoval, now, finalScore>>
  /\ quizUnchanged

\* startQuiz after generateContent: the session is stored under the key and
\* the timeout is armed; a rejection is caught
StartQuizSettled(i, ok) ==
  /\ i \in DOMAIN quizPending
  /\ quizPending[i].kind = "start"
  /\ quizPending' = Without(quizPending, i)
  /\ IF ok
       THEN /\ activeSessions' = Len(quizSessions) + 1
            /\ quizSessions' =
                 Collect(Append(quizSessions,
                                [questionsAsked |-> 1, correctAnswers |-> 0,
                                 startTime |-> quizPending[i].startTime,
                                 labels |-> <<1>>, answers |-> 0]),
                         activeSessions', quizPending')
            /\ quizTimers' = Append(quizTimers, now + SESSION_TIMEOUT)
            /\ quizReply' = "started"
       ELSE /\ quizReply' = "failedStart"
            /\ UNCHANGED <<quizSessions, activeSessions, quizTimers>>
  /\ UNCHANGED <<nQuizStarts, lastRemoval, now, finalScore>>
  /\ quizUnchanged

\* generateFinalScore: correctAnswers/MAX_QUESTIONS and the rounded percentage;
\* history: the user answers the session holds, and how many of them an
\* evaluation has judged
generateFinalScore(session) ==
  [reported |-> TRUE,
   correctAnswers |-> session.correctAnswers,
   outOf |-> MAX_QUESTIONS,
   percentage |-> (200 * session.correctAnswers + MAX_QUESTIONS) \div (2 * MAX_QUESTIONS),
   answers |-> session.answers,
   judged |-> session.questionsAsked - 1]

\* handleAnswer up to its await, called by the bot for a reply of a user with
\* an active session: the answer is added to the history; at MAX_QUESTIONS it
\* ends the quiz with the final score
HandleAnswer ==
  /\ activeSessions # 0
  /\ Len(quizPending) < MaxPending
  /\ LET pushed == [quizSessions EXCEPT ![activeSessions].answers = @ + 1] IN
       /\ IF quizSessions[activeSessions].questionsAsked >= MAX_QUESTIONS
            THEN /\ activeSessions' = 0
                 /\ lastRemoval' = Removal("final")
                 /\ finalScore' = generateFinalScore(pushed[activeSessions])
                 /\ quizReply' = "final"
                 /\ UNCHANGED quizPending
            ELSE /\ quizPending' = Append(quizPending,
                                          [kind |-> "answer", session |-> activeSessions,
                                           startTime |-> 0])
                 /\ UNCHANGED <<activeSessions, quizReply, lastRemoval, finalScore>>
       /\ quizSessions' = Collect(pushed, activeSessions', quizPending')
  /\ UNCHANGED <<quizTimers, nQuizStarts, now>>
  /\ quizUnchanged

\* The answers of session s whose evaluation failed: those given that are
\* neither judged nor being judged.
Failed(s) ==
  quizSessions[s].answers - (quizSessions[s].questionsAsked - 1)
    - Cardinality({k \in DOMAIN quizPending : quizPending[k].session = s})

\* handleAnswer after generateContent: the session object is updated and the
\* reply is formatted with the number of the next question
HandleAnswerSettled(i, ok, wasCorrect) ==
  /\ i \in DOMAIN quizPending
  /\ quizPending[i].kind = "answer"
  /\ ok \/ ~wasCorrect
  /\ ok \/ Failed(quizPending[i].session) < MaxFailed
  /\ quizPending' = Without(quizPending, i)
  /\ LET s == quizPending[i].session
         asked == quizSessions[s].questionsAsked + 1
         questionNum == Min(asked + 1, MAX_QUESTIONS)
         updated == [quizSessions EXCEPT
                       ![s].questionsAsked = asked,
                       ![s].correctAnswers = IF wasCorrect THEN @ + 1 ELSE @,
                       ![s].labels = Append(@, questionNum)]
     IN /\ quizReply' = IF ok THEN "question" ELSE "error"
        /\ quizSessions' = Collect(IF ok THEN updated ELSE quizSessions,
                                   activeSessions, quizPending')
  /\ UNCHANGED <<activeSessions, quizTimers, nQuizStarts, lastRemoval, now, finalScore>>
  /\ quizUnchanged

\* endQuiz, from the quiz end command
EndQuiz ==
  /\ quizReply' = IF activeSessions = 0 THEN "noSession" ELSE "ended"
  /\ lastRemoval' = Removal("ended")
  /\ activeSessions' = 0
  /\ quizSessions' = Collect(quizSessions, 0, quizPending)
  /\ UNCHANGED <<quizPending, quizTimers, nQuizStarts, now, finalScore>>
  /\ quizUnchanged

\* the setTimeout callback of startQuiz: it ends whatever quiz is under the key
QuizTimeout(i) ==
  /\ i \in DOMAIN quizTimers
  /\ quizTimers[i] <= now
  /\ quizTimers' = Without(quizTimers, i)
  /\ lastRemoval' = Removal("timeout")
  /\ activeSessions' = 0
  /\ quizSessions' = Collect(quizSessions, 0, quizPending)
  /\ UNCHANGED <<quizPending, quizReply, nQuizStarts, now, finalScore>>
  /\ quizUnchanged

\* cleanupExpiredSessions, run by the bot's interval, when it finds the session
\* expired
CleanupExpiredSessions ==
  /\ activeSessions # 0
  /\ now - quizSessions[activeSessions].startTime > SESSION_TIMEOUT
  /\ lastRemoval' = Removal("sweep")
  /\ activeSessions' = 0
  /\ quizSessions' = Collect(quizSessions, 0, quizPending)
  /\ UNCHANGED <<quizPending, quizTimers, quizReply, nQuizStarts, now, finalScore>>
  /\ quizUnchanged

\* time passes; a timeout that is due runs before more time passes
Tick ==
  /\ now < MaxTicks * SWEEP_INTERVAL
  /\ \A i \in DOMAIN quizTimers : quizTimers[i] > now
  /\ now' = now + SWEEP_INTERVAL
  /\ UNCHANGED <<activeSessions, quizSessions, quizPending, quizTimers, quizReply,
                 nQuizStarts, lastRemoval, finalScore>>
  /\ quizUnchanged

\* A quiz in the minutes after the bot started: no timeout is due yet.
NextQuiz ==
  \/ StartQuiz
  \/ \E i \in 1..MaxPending, ok \in BOOLEAN : StartQuizSettled(i, ok)
  \/ HandleAnswer
  \/ \E i \in 1..MaxPending, ok \in BOOLEAN, wasCorrect \in BOOLEAN :
       HandleAnswerSettled(i, ok, wasCorrect)
  \/ EndQuiz

SpecQuiz == Init /\ [][NextQuiz]_vars

\* Quizzes over time, with the timeouts and the sweep.  How an answer is
\* judged touches neither the clock nor the session table: here every answer
\* is judged incorrect.
NextQuizClock ==
  \/ StartQuiz
  \/ \E i \in 1..MaxPending, ok \in BOOLEAN : StartQuizSettled(i, ok)
  \/ HandleAnswer
  \/ \E i \in 1..MaxPending, ok \in BOOLEAN : HandleAnswerSettled(i, ok, FALSE)
  \/ EndQuiz
  \/ \E i \in 1..MaxQuizStarts : QuizTimeout(i)
  \/ CleanupExpiredSessions
  \/ Tick

SpecQuizClock == Init /\ [][NextQuizClock]_vars

(***************************************************************************)
(* The PCM stream of playNextAudio: a Readable over continuousAudio whose  *)
(* read() pushes the next CHUNK_SIZE bytes, or ends the stream.            *)
(***************************************************************************)
emitUnchanged ==
  UNCHANGED <<playbackVars, sessionVars, captureVars, toolVars, teardown, botVars,
              dspVars, commandVars, clientVars>>

\* The byte lengths of continuousAudio: 16-bit stereo, 4 bytes a sample.
StreamLengths == {4 * k : k \in 0..MaxStereoSamples}

\* new Readable({ read() { ... } }) over continuousAudio, with offset = 0
OpenStream(length) ==
  /\ ~pcmStream.open
  /\ pcmStream' = [NoStream EXCEPT !.open = TRUE, !.length = length]
  /\ UNCHANGED playTries
  /\ emitUnchanged

\* Mutant of SliceEnd: the slice is not cut at the end of the buffer.
SliceEndUncut(offset, length) == offset + CHUNK_SIZE

\* Math.min(offset + CHUNK_SIZE, continuousAudio.length)
SliceEnd(offset, length) == Min(offset + CHUNK_SIZE, length)

\* read(): called by the stream until it has pushed null
ReadStream ==
  /\ pcmStream.open
  /\ ~pcmStream.ended
  /\ pcmStream' =
       IF pcmStream.offset < pcmStream.length
         THEN [pcmStream EXCEPT
                 !.frames = Append(@, [from |-> pcmStream.offset,
                                       to |-> SliceEnd(pcmStream.offset, pcmStream.length)]),
                 !.offset = @ + CHUNK_SIZE]
         ELSE [pcmStream EXCEPT !.ended = TRUE]
  /\ UNCHANGED playTries
  /\ emitUnchanged

NextFrames ==
  \/ \E length \in StreamLengths : OpenStream(length)
  \/ ReadStream

SpecFrames == Init /\ [][NextFrames]_vars

(***************************************************************************)
(* GenAILiveClient on its own: connect() and disconnect() called by its    *)
(* user, and the close of the connection by the service.                   *)
(***************************************************************************)
clientUnchanged ==
  UNCHANGED <<playbackVars, captureVars, toolVars, teardown, botVars, dspVars, commandVars,
              emitVars, connPc, voiceConnection, isConnected, responseInProgress,
              disconnected, interruptedNow>>

\* Mutant of Busy: only a connected client refuses connect().
BusyWhenConnected(status) == status = "connected"

\* this._status === "connected" || this._status === "connecting"
Busy(status) == status \in {"connected", "connecting"}

Last(sessions, status) == [sessions EXCEPT ![Len(sessions)] = status]

\* connect() up to await client.live.connect
ClientConnect ==
  /\ IF Busy(geminiStatus)
       THEN /\ clientReturn' = [call |-> "connect", at |-> "call", value |-> FALSE]
            /\ UNCHANGED geminiStatus
            /\ UNCHANGED textBuffer
       ELSE /\ geminiStatus' = "connecting"
            /\ textBuffer' = <<>>
            /\ clientReturn' = [call |-> "connect", at |-> "await", value |-> FALSE]
  /\ UNCHANGED <<geminiSession, socket, liveSessions, serverLog, clientEvents>>
  /\ clientUnchanged

\* client.live.connect settles: the session is kept and connect() returns
\* true, or the rejection is caught and it returns false
ClientConnectSettled(ok) ==
  /\ geminiStatus = "connecting"
  /\ IF ok
       THEN /\ Len(liveSessions) < MaxConnects
            /\ liveSessions' = Append(liveSessions, "open")
            /\ geminiSession' = "set"
            /\ socket' = "open"
            /\ geminiStatus' = "connected"
       ELSE /\ geminiStatus' = "disconnected"
            /\ UNCHANGED <<geminiSession, socket, liveSessions>>
  /\ clientReturn' = [call |-> "connect", at |-> "return", value |-> ok]
  /\ UNCHANGED <<textBuffer, serverLog, clientEvents>>
  /\ clientUnchanged

\* disconnect()
ClientDisconnect ==
  /\ IF geminiSession = "null"
       THEN UNCHANGED <<geminiSession, geminiStatus, socket, liveSessions, textBuffer>>
       ELSE /\ geminiSession' = "null"
            /\ geminiStatus' = "disconnected"
            /\ textBuffer' = <<>>
            /\ socket' = IF socket = "open" THEN "closing" ELSE socket
            /\ liveSessions' = Last(liveSessions, socket')
  /\ clientReturn' = [call |-> "disconnect", at |-> "return", value |-> geminiSession # "null"]
  /\ UNCHANGED <<serverLog, clientEvents>>
  /\ clientUnchanged

\* onclose of the session the client holds: the service closed the connection
ServiceCloses ==
  /\ geminiSession = "set"
  /\ socket = "open"
  /\ socket' = "closed"
  /\ liveSessions' = Last(liveSessions, "closed")
  /\ UNCHANGED <<geminiSession, geminiStatus, clientReturn, textBuffer, serverLog, clientEvents>>
  /\ clientUnchanged

NextClient ==
  \/ ClientConnect
  \/ \E ok \in BOOLEAN : ClientConnectSettled(ok)
  \/ ClientDisconnect
  \/ ServiceCloses

SpecClient == Init /\ [][NextClient]_vars

(***************************************************************************)
(* The text responses of GenAILiveClient: the serverContent messages of    *)
(* one session, the text buffer, and the events emitted for them.  A text  *)
(* is carried as the numbers of the messages whose parts it was built      *)
(* from, in order.                                                         *)
(***************************************************************************)
\* serverContent: the keys present, and what the parts of modelTurn hold
\* ("audio": inline PCM only, "word": text, "blank": text of white space)
ServerContents ==
  { m \in [keys : {{"modelTurn"}, {"turnComplete"}, {"interrupted"},
                   {"modelTurn", "turnComplete"}},
           part : {"none", "audio", "word", "blank"}] :
      (m.part = "none") <=> ("modelTurn" \notin m.keys) }

Event(type, text, at) == [type |-> type, text |-> text, at |-> at]

\* textBuffer.trim()
Trim(buffer) == IF \E k \in 1..Len(buffer) : ~buffer[k].blank THEN buffer ELSE <<>>

\* processTextResponse: formatResponse does not throw, and the three events
\* carry the voice summary, the text and both, all made of the same text
processTextResponse(text, at) ==
  << Event("voiceResponse", Ids(text), at),
     Event("textResponse", Ids(text), at),
     Event("formattedResponse", Ids(text), at) >>

\* onmessage with message.serverContent
OnServerContent(m) ==
  /\ geminiSession = "set"
  /\ socket = "open"
  /\ Len(serverLog) < MaxMessages
  /\ serverLog' = Append(serverLog, m)
  /\ LET at == Len(serverLog) + 1 IN
       IF "interrupted" \in m.keys
         THEN /\ clientEvents' = Append(clientEvents, Event("interrupted", <<>>, at))
              /\ textBuffer' = <<>>
       ELSE IF "turnComplete" \in m.keys
         THEN IF Trim(textBuffer) # <<>>
                THEN /\ clientEvents' = clientEvents \o processTextResponse(textBuffer, at)
                                          \o <<Event("turncomplete", <<>>, at)>>
                     /\ textBuffer' = <<>>
                ELSE /\ clientEvents' = Append(clientEvents, Event("turncomplete", <<>>, at))
                     /\ UNCHANGED textBuffer
       ELSE IF m.part = "audio"
         THEN /\ clientEvents' = Append(clientEvents, Event("audio", <<>>, at))
              /\ UNCHANGED textBuffer
       ELSE /\ textBuffer' = Append(textBuffer, [id |-> at, blank |-> m.part = "blank"])
            /\ clientEvents' = Append(clientEvents, Event("content", <<at>>, at))
  /\ UNCHANGED <<geminiSession, geminiStatus, socket, liveSessions, clientReturn>>
  /\ clientUnchanged

NextText ==
  \/ ClientConnect
  \/ ClientConnectSettled(TRUE)
  \/ \E m \in ServerContents : OnServerContent(m)

SpecText == Init /\ [][NextText]_vars

(***************************************************************************)
(* playNextAudio on its own: one call on a connected session that is not   *)
(* playing, whatever fragments its queue holds.                            *)
(***************************************************************************)
RECURSIVE Queues(_)
Queues(n) ==
  IF n = 0 THEN {<<>>}
  ELSE Queues(n - 1) \cup
       { Append(q, [id |-> n, data |-> b.data, odd |-> b.odd, stale |-> FALSE]) :
           q \in {p \in Queues(n - 1) : Len(p) = n - 1}, b \in AudioBuffers }

InitRetry ==
  /\ Untouched
  /\ monoBuffer = <<>>
  /\ connPc = "done"
  /\ voiceConnection = "ready"
  /\ audioPlayer = [NoPlayer EXCEPT !.created = TRUE]
  /\ geminiStatus = "connected"
  /\ geminiSession = "set"
  /\ socket = "open"
  /\ isConnected = TRUE
  /\ audioQueue \in Queues(MaxFragments)
  /\ arrived = audioQueue
  /\ responseInProgress \in BOOLEAN
  /\ playTries = [called |-> FALSE, entries |-> <<>>]

\* this.playNextAudio()
PlayNextAudio(fails) ==
  /\ ~playTries.called
  /\ Commit(playNextAudio(Pb, fails))
  /\ playTries' = [called |-> TRUE, entries |-> Entries(Pb, fails)]
  /\ UNCHANGED <<arrived, cancelled, emitted, connPc, voiceConnection, geminiStatus,
                 geminiSession, socket, isConnected, disconnected, interruptedNow,
                 pcmStream>>
  /\ UNCHANGED <<captureVars, toolVars, teardown, botVars, dspVars, commandVars, clientVars>>

NextRetry == \E fails \in BOOLEAN : PlayNextAudio(fails)

SpecRetry == InitRetry /\ [][NextRetry]_vars

\* The session with the stop command of the bot.
NextStop ==
  \/ Connect
  \/ \E b \in AudioBuffers, stale \in BOOLEAN, fails \in BOOLEAN :
       OnAudio(b.data, b.odd, stale, fails)
  \/ OnTurnComplete
  \/ \E fails \in BOOLEAN : OnPlayerIdle(fails)
  \/ \E atOnce \in BOOLEAN : Disconnect(atOnce)
  \/ StopCommand

SpecStop == Init /\ [][NextStop]_vars

\* The capture side of the session, for one participant.
Speakers == {"u1"}

NextCapture ==
  \/ Connect
  \/ \E u \in Speakers : OnSpeakingStart(u)
  \/ \E u \in Speakers, run \in PacketRuns : OnPacket(u, run)
  \/ \E u \in Speakers : OnStreamEnd(u)
  \/ \E t \in timers, fails \in BOOLEAN : OnTimer(t, fails)
  \/ OnTurnComplete
  \/ \E atOnce \in BOOLEAN : Disconnect(atOnce)

SpecCapture == Init /\ [][NextCapture]_vars

\* Two participants.  Participant A speaks two segments of 300 ms with a
\* pause of PauseMs between the end of its stream and its next speech start;
\* participant B speaks 600 ms at any time, and the service's responses come
\* at any time.  A debounce timer fires when its time has passed: a timer of
\* A armed for more than PauseMs cannot fire before A speaks again, and one
\* armed for less has fired by then.
A == "u1"

B == "u2"

PauseMs == 600

SegmentRun == [frames |-> 15, left |-> 800, right |-> 800]

SpeechRun == [frames |-> 30, left |-> 800, right |-> 800]

Pausing == nStarts[A] = 1 /\ nPackets[A] = 1 /\ A \notin streams

ScriptStart ==
  /\ A \notin streams
  /\ \/ nStarts[A] = 0
     \/ Pausing /\ \A t \in timers : t.user = A => t.ms > PauseMs
  /\ OnSpeakingStart(A)

ScriptPacket ==
  /\ nPackets[A] < nStarts[A]
  /\ OnPacket(A, SegmentRun)

ScriptEnd ==
  /\ nPackets[A] = nStarts[A]
  /\ OnStreamEnd(A)

OtherStart ==
  /\ nStarts[B] = 0
  /\ OnSpeakingStart(B)

OtherPacket ==
  /\ nPackets[B] = 0
  /\ OnPacket(B, SpeechRun)

OtherEnd ==
  /\ nPackets[B] = 1
  /\ OnStreamEnd(B)

TimerFires(t) ==
  /\ (t.user = A /\ Pausing) => t.ms <= PauseMs
  /\ OnTimer(t, FALSE)

NextPair ==
  \/ ConnectJoin
  \/ ConnectVoiceReady
  \/ ConnectGeminiOpen
  \/ ScriptStart
  \/ ScriptPacket
  \/ ScriptEnd
  \/ OtherStart
  \/ OtherPacket
  \/ OtherEnd
  \/ \E t \in timers : TimerFires(t)
  \/ OnTurnComplete

SpecPair == Init /\ [][NextPair]_vars

\* The audio processor on every buffer of up to MaxSamples samples.
InitBuffer == Constructed /\ monoBuffer \in MonoBuffers

NextBuffer ==
  \/ ChannelsRoundTrip
  \/ StereoToMono
  \/ \E from \in Rates, to \in Rates : Resample(from, to)
  \/ \E from \in Rates, to \in Rates : RatesRoundTrip(from, to)

SpecBuffer == InitBuffer /\ [][NextBuffer]_vars

\* The tool calls of the session.
NextTools ==
  \/ Connect
  \/ \E event \in ToolCallEvents : OnToolCall(event)
  \/ \E k \in DOMAIN toolHandlers, posted \in BOOLEAN, sendThrows \in {"no", "first", "both"} :
       OnChannelSend(k, posted, sendThrows)
  \/ \E atOnce \in BOOLEAN : Disconnect(atOnce)
  \/ OnClose

SpecTools == Init /\ [][NextTools]_vars

\* The bot's commands for one guild.
NextBot ==
  \/ JoinCommand
  \/ \E j \in DOMAIN joins, replied \in BOOLEAN : JoinReplied(j, replied)
  \/ \E j \in DOMAIN joins, ready \in BOOLEAN : JoinVoiceSettled(j, ready)
  \/ \E j \in DOMAIN joins, opened \in BOOLEAN : JoinGeminiSettled(j, opened)
  \/ \E m \in DOMAIN managers : ServiceClose(m)
  \/ LeaveCommand

SpecBot == Init /\ [][NextBot]_vars

(***************************************************************************)
(* A response of StreamLength well-formed fragments played with no         *)
(* cancellation, no playback error and no teardown, by a player that       *)
(* finishes every stream it is given.                                      *)
(***************************************************************************)
StreamLength == 3

StreamPayloads == FragmentPayloads \cup { <<-32768, 0>> }

NextStream ==
  \/ ConnectJoin
  \/ ConnectVoiceReady
  \/ ConnectGeminiOpen
  \/ \E data \in StreamPayloads :
       Len(arrived) < StreamLength /\ OnAudio(data, FALSE, FALSE, FALSE)
  \/ OnPlayerIdle(FALSE)

SpecStream == Init /\ [][NextStream]_vars /\ WF_vars(NextStream)

(***************************************************************************)
(* Properties                                                              *)
(***************************************************************************)
Sent(f) == f.outcome = "sent"

RECURSIVE IsSubsequence(_, _)
IsSubsequence(sub, seq) ==
  IF sub = <<>> THEN TRUE
  ELSE IF seq = <<>> THEN FALSE
  ELSE IF Head(sub) = Head(seq) THEN IsSubsequence(Tail(sub), Tail(seq))
  ELSE IsSubsequence(sub, Tail(seq))

\* C1: the fragments handed to the audio player, over all playNextAudio
\* cycles, are a subsequence of the arrival sequence in the same order, and
\* no fragment is handed over twice.
C1_HandedIsSubsequenceOfArrivals ==
  /\ IsSubsequence(handed, Ids(arrived))
  /\ \A i, j \in DOMAIN handed : i # j => handed[i] # handed[j]

\* C1 witness: two cycles have handed fragments to the player, and a
\* fragment that arrived in between was dropped by a cancellation.
C1_Witness ==
  /\ Len(handed) >= 3
  /\ \E i \in 1..(Len(handed) - 1) : handed[i + 1] > handed[i] + 1

Expected(frags) ==
  ConcatAll([i \in 1..Len(frags) |-> convertGeminiToDiscord(frags[i])])

\* C2: once F1, F2, F3 have arrived and the player has finished what it was
\* given (nothing is left to happen), the emitted output is convert(F1)
\* followed by convert(F2) followed by convert(F3).
C2_AllFragmentsEmitted ==
  (Len(arrived) = StreamLength /\ audioPlayer.status = "idle")
    => emitted = Expected(arrived)

\* C3: playNextAudio never starts a resource on the player while a resource
\* started earlier is still playing, neither finished, failed nor stopped.
C3_OneStreamAtATime == ~overlap

\* C3 witness: after a cancellation and a finished stream, a new stream
\* is playing.
C3_Witness ==
  /\ cancelled
  /\ emitted # <<>>
  /\ Live(audioPlayer)
  /\ Len(handed) >= 4

\* C4: a fragment of a cancelled response that arrives after the
\* cancellation is never handed to the audio player.
C4_StaleFragmentNeverPlayed ==
  \A i \in DOMAIN handed : ~arrived[handed[i]].stale

\* C5: right after the 'interrupted' event the playback queue is empty and
\* no stream is left playing.
C5_InterruptedCancelsPlayback ==
  interruptedNow => (audioQueue = <<>> /\ ~Live(audioPlayer))

\* C7: an utterance is forwarded only if its duration (accumulated samples
\* / 48000 s) is at least 500 ms and its RMS level at least 400; a buffer
\* that is too short is discarded by the duration gate, one that is long
\* enough but too quiet by the loudness gate, and nothing is sent for either.
DurationMs(f) == (f.totalSamples * 1000) \div DISCORD_SAMPLE_RATE

LoudEnough(f) ==
  SquareSum(f.chunks) >= 4 * MIN_RMS_THRESHOLD * MIN_RMS_THRESHOLD * FrameCount(f.chunks)

C7_GatesDecideForwarding ==
  \A i \in DOMAIN finals :
    LET f == finals[i]
    IN /\ Sent(f) => (DurationMs(f) >= MIN_AUDIO_DURATION_MS /\ LoudEnough(f))
       /\ DurationMs(f) < MIN_AUDIO_DURATION_MS => f.outcome = "short"
       /\ (DurationMs(f) >= MIN_AUDIO_DURATION_MS /\ ~LoudEnough(f)) => f.outcome = "quiet"
       /\ f.outcome \in {"short", "quiet"} => (~f.delivered /\ f.data.base64Length = 0)

\* C7 witness: an utterance of exactly 500 ms at RMS 400 was forwarded.
C7_Witness ==
  \E i \in DOMAIN finals :
    /\ Sent(finals[i])
    /\ DurationMs(finals[i]) = MIN_AUDIO_DURATION_MS
    /\ SquareSum(finals[i].chunks)
         = 4 * MIN_RMS_THRESHOLD * MIN_RMS_THRESHOLD * FrameCount(finals[i].chunks)

\* C8: a forwarded utterance holds the audio accumulated in its buffer with
\* each decoded frame counted once, and its sample count is that of those
\* frames.
C8_EachFrameCountedOnce ==
  \A i \in DOMAIN finals :
    Sent(finals[i]) =>
      LET chunks == finals[i].chunks
      IN /\ \A j, k \in DOMAIN chunks : j # k => chunks[j].pkt # chunks[k].pkt
         /\ finals[i].totalSamples = FrameCount(chunks) * FRAME_SIZE

\* C9: a debounce timer that is pending when the participant starts to
\* speak again is cancelled: no timer of a participant is pending while the
\* participant's stream is open.
C9_SpeechStartCancelsPendingTimer ==
  \A t \in timers : t.user \notin streams

\* C10: after disconnect() no debounce timer that was pending at the
\* teardown is left, the capture-buffer table is empty, and no utterance is
\* forwarded.
C10_TeardownCancelsTimers ==
  disconnected =>
    /\ \A t \in timers : t.late
    /\ \A u \in Users : userAudioBuffers[u] = 0
    /\ \A i \in DOMAIN finals : ~finals[i].afterDisconnect

\* C6: when a run of the 'toolcall' listener has finished, every function
\* call of the event has been answered by exactly one tool response that
\* carries its id.
Answers(call) ==
  {i \in DOMAIN toolResponses : toolResponses[i].id = call.id /\ call.hasId}

C6_EveryCallAnswered ==
  \A k \in DOMAIN toolHandlers :
    toolHandlers[k].state = "done" =>
      \A c \in DOMAIN toolHandlers[k].calls :
        Cardinality(Answers(toolHandlers[k].calls[c])) = 1

\* C11: disconnect() cancels the capture timers first, then cancels playback
\* (clears the queue and stops the stream), then closes the AI-service
\* connection, then closes the voice connection.
StepAt(step) == CHOOSE i \in DOMAIN teardown : teardown[i] = step

C11_TeardownOrder ==
  disconnected =>
    /\ StepAt("clear timers") < StepAt("clear queue")
    /\ StepAt("clear timers") < StepAt("stop player")
    /\ StepAt("clear queue") < StepAt("close gemini")
    /\ StepAt("stop player") < StepAt("close gemini")
    /\ StepAt("close gemini") < StepAt("destroy voice")

\* C12: after disconnect() no step leaves a fragment in the playback queue
\* or hands one to the audio player.
C12_LateFragmentHasNoEffect ==
  [][disconnected => (audioQueue' = <<>> /\ handed' = handed)]_vars

\* C13: when the player reports an error while fragments are queued, the
\* handler leaves the queue empty and the session idle, and hands none of
\* the queued fragments to the player.
C13_ErrorClearsQueueAndIdles ==
  [][(audioQueue # <<>> /\ \E fails \in BOOLEAN : OnPlayerError(fails))
       => (audioQueue' = <<>> /\ ~isPlaying' /\ handed' = handed)]_vars

\* C14: a manager whose Gemini connection failed to be established, or was
\* closed by the service, has its voice connection destroyed and is not in
\* the bot's table.
C14_GeminiFailureTearsDown ==
  \A m \in DOMAIN managers :
    managers[m].gemini \in {"failed", "closed"} =>
      /\ voiceObjects[managers[m].voice] = "destroyed"
      /\ voiceConnections # m

\* C15: at most one manager of the guild is connected, and a connected
\* manager is the one in voiceConnections.
Connected(m) ==
  /\ ~managers[m].disconnected
  /\ managers[m].gemini = "open"
  /\ voiceObjects[managers[m].voice] = "ready"

C15_OneConnectedManager ==
  /\ Cardinality({m \in DOMAIN managers : Connected(m)}) <= 1
  /\ \A m \in DOMAIN managers : Connected(m) => voiceConnections = m

\* C16: once participant A has spoken its two segments and its timers have
\* fired, the gate decisions on A's audio are those A gets when B is silent
\* and no response is in progress, whatever B and the service did.
OutcomesOf(u) ==
  LET own == SelectSeq(finals, LAMBDA f : f.user = u)
  IN [i \in DOMAIN own |-> own[i].outcome]

Gate(runs) ==
  FinalOutcome([chunks |-> runs, totalSamples |-> FrameCount(runs) * FRAME_SIZE], FALSE)

AloneOutcomes ==
  IF Min(DEBOUNCE_MS, IDLE_DEBOUNCE_MS) <= PauseMs
  THEN <<Gate(<<SegmentRun>>), Gate(<<SegmentRun>>)>>
  ELSE <<Gate(<<SegmentRun, SegmentRun>>)>>

ScriptDone ==
  /\ nStarts[A] = 2
  /\ nPackets[A] = 2
  /\ A \notin streams
  /\ \A t \in timers : t.user # A

C16_OtherSpeakerDoesNotChangeGates ==
  ScriptDone => OutcomesOf(A) = AloneOutcomes

\* C17: a finalization that forwarded, rejected or failed to convert a
\* participant's audio leaves the participant without an entry in
\* userAudioBuffers, and a speech start of a participant without an entry
\* puts a buffer with no chunks and zero samples in the table.
C17_FinalizationDestroysBuffer ==
  [][/\ Len(finals') > Len(finals) => userAudioBuffers'[finals'[Len(finals')].user] = 0
     /\ \A u \in Users :
          (userAudioBuffers[u] = 0 /\ userAudioBuffers'[u] # 0) =>
            /\ userAudioBuffers'[u] \notin DOMAIN bufs
            /\ bufs'[userAudioBuffers'[u]].chunks = <<>>
            /\ bufs'[userAudioBuffers'[u]].totalSamples = 0]_vars

\* C17 witness: audio of a participant was forwarded and the participant
\* has started to speak again, into a second buffer.
C17_Witness ==
  \E u \in Users :
    /\ \E i \in DOMAIN finals : finals[i].user = u /\ finals[i].outcome = "sent"
    /\ userAudioBuffers[u] = Len(bufs)
    /\ Len(bufs) >= 2
    /\ u \in streams

\* C18: stereoToMono(monoToStereo(x)) is x, sample for sample.
C18_ChannelsRoundTripIsIdentity ==
  dsp.op = "channels" => dsp.out = monoBuffer

\* C18 witness: the round trip was made on a buffer that holds both extreme
\* values.
C18_Witness ==
  /\ dsp.op = "channels"
  /\ \E i, j \in DOMAIN monoBuffer : monoBuffer[i] = INT16_MIN /\ monoBuffer[j] = INT16_MAX

\* C19: resampling from one rate to another and back gives a buffer whose
\* sample count differs from that of the input by at most 1.
C19_RatesRoundTripKeepsCount ==
  dsp.op = "rates" =>
    /\ Len(dsp.out) - Len(monoBuffer) <= 1
    /\ Len(monoBuffer) - Len(dsp.out) <= 1

\* C20: resample returns floor(n * to / from) samples and reads only input
\* samples with an index in 0..n-1.
C20_ResampleCountAndReads ==
  dsp.op = "resample" =>
    /\ Len(dsp.out) = (Len(monoBuffer) * dsp.to) \div dsp.from
    /\ dsp.reads \subseteq 0..(Len(monoBuffer) - 1)

\* C20 witness: a buffer was resampled to a higher rate, and its last sample
\* was read.
C20_Witness ==
  /\ dsp.op = "resample"
  /\ dsp.to > dsp.from
  /\ Len(monoBuffer) >= 3
  /\ (Len(monoBuffer) - 1) \in dsp.reads

\* C21: every sample resample writes lies in the 16-bit signed range.
C21_ResampleStaysInRange ==
  dsp.op = "resample" =>
    \A i \in DOMAIN dsp.out : dsp.out[i] >= -32768 /\ dsp.out[i] <= 32767

\* C21 witness: a buffer that alternates between the extremes was resampled
\* to another rate, and samples between its samples were written.
C21_Witness ==
  /\ dsp.op = "resample"
  /\ dsp.from < dsp.to
  /\ Len(monoBuffer) >= 3
  /\ \A i \in DOMAIN monoBuffer :
       monoBuffer[i] = IF i % 2 = 1 THEN INT16_MIN ELSE INT16_MAX
  /\ Len(dsp.out) > Len(monoBuffer)

\* C22: stereoToMono of k stereo frames returns k samples, and sample i is
\* the floor of (left_i + right_i) / 2: the greatest integer m with
\* 2m <= left_i + right_i.
C22_StereoToMonoFloorsAverage ==
  dsp.op = "mono" =>
    /\ 2 * Len(dsp.out) = Len(monoBuffer)
    /\ \A i \in DOMAIN dsp.out :
         LET sum == monoBuffer[2 * i - 1] + monoBuffer[2 * i]
         IN 2 * dsp.out[i] <= sum /\ sum < 2 * dsp.out[i] + 2

\* C22 witness: a frame whose samples have a negative odd sum was averaged.
C22_Witness ==
  /\ dsp.op = "mono"
  /\ \E i \in DOMAIN dsp.out :
       LET sum == monoBuffer[2 * i - 1] + monoBuffer[2 * i]
       IN sum < 0 /\ sum % 2 = 1

\* C23: a stop command for a guild with an active session leaves that
\* session with an empty playback queue and no playback in progress, and the
\* bot replies that it stopped speaking.
C23_StopClearsQueueAndConfirms ==
  [][(stopReplies' # stopReplies /\ InTable) =>
       /\ audioQueue' = <<>>
       /\ ~isPlaying'
       /\ stopReplies'[Len(stopReplies')].text = "stopped"]_vars

\* C24: whenever a connected session is idle, with no outbound stream
\* active, getStatus() reports 0 queued audio fragments.
C24_IdleMeansEmptyQueue ==
  (isActive /\ ~isPlaying /\ audioPlayer.status = "idle") =>
    getStatus.queuedAudioChunks = 0

\* C25: a startQuiz issued while a quiz of the same user and channel is
\* active or still being started is rejected with the already-active
\* message, and neither starts a session nor replaces the existing one.
C25_StartWhileStartingIsRejected ==
  [][(nQuizStarts' = nQuizStarts + 1
      /\ (activeSessions # 0
          \/ \E i \in DOMAIN quizPending : quizPending[i].kind = "start")) =>
       /\ quizReply' = "alreadyActive"
       /\ quizPending' = quizPending
       /\ activeSessions' = activeSessions]_vars

\* C26: the k-th question presented in a quiz is labelled k, for k up to
\* MAX_QUESTIONS: no number is skipped or repeated.
C26_QuestionsLabelledInOrder ==
  \A s \in DOMAIN quizSessions :
    \A k \in DOMAIN quizSessions[s].labels :
      k <= MAX_QUESTIONS => quizSessions[s].labels[k] = k

\* C27: a session removed by the timeout or by the sweep was started at
\* least SESSION_TIMEOUT before its removal.
C27_CleanupOnlyAfterTimeout ==
  lastRemoval.by \in {"timeout", "sweep"} => lastRemoval.age >= SESSION_TIMEOUT

\* C28: every utterance that passed both gates and was forwarded has been
\* delivered to the AI-service session; none is dropped because the session
\* is not there.
C28_ForwardedIsDelivered ==
  \A i \in DOMAIN finals : finals[i].outcome = "sent" => finals[i].delivered

\* C29: responseInProgress becomes true only in a step that sent an utterance
\* which passed both gates to the AI service, every such step sets it, an
\* utterance that is discarded leaves it as it was, and it is false after a
\* turn-complete event.
Finalized == Len(finals') = Len(finals) + 1

SentToService ==
  /\ Finalized
  /\ finals'[Len(finals')].outcome = "sent"
  /\ finals'[Len(finals')].delivered

C29_InFlightExactlyWhenSent ==
  [][/\ (responseInProgress' /\ ~responseInProgress) => SentToService
     /\ SentToService => responseInProgress'
     /\ (Finalized /\ finals'[Len(finals')].outcome \in {"short", "quiet"}) =>
          responseInProgress' = responseInProgress
     /\ OnTurnComplete => ~responseInProgress']_vars

\* C30: every tool response sent carries the id and the name of a function
\* call received before, and the responses to the send_chat_message calls of
\* one toolcall event are sent in the order of the calls.
ResponsesTo(call) == {i \in DOMAIN toolResponses : toolResponses[i].id = call.id}

C30_ResponsesTaggedAndOrdered ==
  /\ \A i \in DOMAIN toolResponses :
       \E k \in DOMAIN toolHandlers : \E c \in DOMAIN toolHandlers[k].calls :
         /\ toolHandlers[k].calls[c].hasId
         /\ toolHandlers[k].calls[c].id = toolResponses[i].id
         /\ toolHandlers[k].calls[c].name = toolResponses[i].name
  /\ \A k \in DOMAIN toolHandlers :
       \A c1, c2 \in DOMAIN toolHandlers[k].calls :
         c1 < c2 =>
           \A i1 \in ResponsesTo(toolHandlers[k].calls[c1]) :
             \A i2 \in ResponsesTo(toolHandlers[k].calls[c2]) : i1 < i2

\* C30 witness: both send_chat_message calls of one event were answered, and
\* a response to a call of another event was sent between the two.
C30_Witness ==
  \E k \in DOMAIN toolHandlers :
    \E c1, c2 \in DOMAIN toolHandlers[k].calls :
      /\ c1 < c2
      /\ \E i1 \in ResponsesTo(toolHandlers[k].calls[c1]) :
           \E i2 \in ResponsesTo(toolHandlers[k].calls[c2]) :
             \E j \in DOMAIN toolResponses : i1 < j /\ j < i2

\* C31: when a fragment arrives while nothing is being played, a stream is
\* started only if the queue then holds at least 2 fragments; a lone fragment
\* is queued, and neither the player nor the playing flag changes.
FragmentArrives == Len(arrived') = Len(arrived) + 1

NextCycle ==
  IF audioQueue = <<>>
    THEN ~isPlaying' /\ audioPlayer'.status = "idle"
    ELSE /\ isPlaying'
         /\ audioPlayer'.status = "playing"
         /\ audioQueue' = <<>>
         /\ handed' = handed \o Ids(audioQueue)

FrameBytes(f) == f.to - f.from

C33_FramesTileTheBuffer ==
  LET frames == pcmStream.frames
      n == Len(frames)
  IN /\ \A i \in 1..n :
          /\ frames[i].from = (IF i = 1 THEN 0 ELSE frames[i - 1].to)
          /\ frames[i].to <= pcmStream.length
          /\ FrameBytes(frames[i]) >= 1
          /\ FrameBytes(frames[i]) <= 3840
          /\ i < n => FrameBytes(frames[i]) = 3840
     /\ pcmStream.ended =>
          (IF n = 0 THEN pcmStream.length = 0 ELSE frames[n].to = pcmStream.length)

\* C33 witness: a stream of two full frames and a shorter last one has ended.
C33_Witness ==
  /\ pcmStream.ended
  /\ Len(pcmStream.frames) = 3
  /\ FrameBytes(pcmStream.frames[3]) < 3840

ClosedByService ==
  geminiSession = "set" /\ liveSessions[Len(liveSessions)] = "closed"

C35_ClosedIsNotConnected ==
  ClosedByService => (geminiStatus # "connected" /\ ~Busy(geminiStatus))

\* C36: a connect() called while the status is 'connecting' or 'connected'
\* returns false and changes nothing; at most one session is open at a time;
\* and the status is 'connected' exactly when a session object is held.
OpenSessions == {i \in DOMAIN liveSessions : liveSessions[i] = "open"}

ConnectCalled ==
  /\ clientReturn' # clientReturn
  /\ clientReturn'.call = "connect"
  /\ clientReturn'.at \in {"call", "await"}

C36_OneSessionPerClient ==
  /\ [](Cardinality(OpenSessions) <= 1)
  /\ [](geminiStatus = "connected" <=> geminiSession = "set")
  /\ [][(ConnectCalled /\ geminiStatus \in {"connecting", "connected"}) =>
          /\ clientReturn' = [call |-> "connect", at |-> "call", value |-> FALSE]
          /\ UNCHANGED <<geminiStatus, geminiSession, socket, liveSessions>>]_vars

\* C36 witness: a connect() called on a client that holds its second session
\* has returned false.
C36_Witness ==
  /\ clientReturn = [call |-> "connect", at |-> "call", value |-> FALSE]
  /\ geminiStatus = "connected"
  /\ Len(liveSessions) = 2
  /\ OpenSessions = {2}

\* The turn a message belongs to: the number of turns completed before it.
TurnOf(i) == Cardinality({k \in 1..(i - 1) : "turnComplete" \in serverLog[k].keys})

CarriesText(i) ==
  "modelTurn" \in serverLog[i].keys /\ serverLog[i].part \in {"word", "blank"}

\* The text of message i was followed by an interruption in its turn.
Interrupted(i) ==
  \E j \in (i + 1)..Len(serverLog) :
     "interrupted" \in serverLog[j].keys /\ TurnOf(j) = TurnOf(i)

\* The text of the turn that message j completes, in the order received.
TurnText(j) ==
  SelectSeq([i \in 1..j |-> i],
            LAMBDA i : CarriesText(i) /\ TurnOf(i) = TurnOf(j) /\ ~Interrupted(i))

ResponsesAt(j) ==
  SelectSeq(clientEvents,
            LAMBDA e : e.at = j /\ e.type \in {"voiceResponse", "textResponse",
                                                "formattedResponse", "turncomplete"})

\* C37: the text parts received during a model turn are emitted exactly once, as
\* voiceResponse, textResponse and formattedResponse, in this order and before the
\* 'turncomplete' event of that turn (a turn whose text is white space only, or
\* empty, emits 'turncomplete' alone); text received before an 'interrupted'
\* event of its turn appears in no response.
C37_TurnTextEmittedOnce ==
  /\ \A j \in 1..Len(serverLog) :
        ResponsesAt(j) =
          IF "turnComplete" \notin serverLog[j].keys THEN <<>>
          ELSE IF \E k \in 1..Len(TurnText(j)) : serverLog[TurnText(j)[k]].part = "word"
            THEN processTextResponse([k \in 1..Len(TurnText(j)) |-> [id |-> TurnText(j)[k]]], j)
                   \o <<Event("turncomplete", <<>>, j)>>
          ELSE <<Event("turncomplete", <<>>, j)>>
  /\ \A n \in 1..Len(clientEvents) :
        clientEvents[n].type \in {"voiceResponse", "textResponse", "formattedResponse"}
          => \A k \in 1..Len(clientEvents[n].text) : ~Interrupted(clientEvents[n].text[k])

\* C38: the final score of a quiz counts every answer: the correct answers it
\* reports never exceed the answers the user gave, and a quiz in which no
\* answer was judged incorrect reports MAX_QUESTIONS out of MAX_QUESTIONS.
C38_FinalScoreCountsEveryAnswer ==
  finalScore.reported =>
    /\ finalScore.correctAnswers <= finalScore.answers
    /\ finalScore.correctAnswers = finalScore.judged =>
         /\ finalScore.correctAnswers = MAX_QUESTIONS
         /\ finalScore.outOf = MAX_QUESTIONS

\* C39: a call of playNextAudio ends: each retry after a throw finds the queue
\* shorter than the entry before it did, so the entries are at most one more
\* than the fragments queued; and when the call is over isPlaying is set only
\* if a stream was handed to the player and the player is playing it.
C39_RetriesShrinkTheQueue ==
  playTries.called =>
    /\ \A k \in 1..(Len(playTries.entries) - 1) :
          playTries.entries[k + 1] < playTries.entries[k]
    /\ Len(playTries.entries) <= Len(arrived) + 1
    /\ isPlaying => audioPlayer.status = "playing" /\ handed # <<>>

\* Witness: two conversions threw, and the third entry started a stream.
C39_Witness ==
  /\ playTries.called
  /\ Len(playTries.entries) >= 3
  /\ isPlaying
  /\ handed # <<>>

=============================================================================
